---------------------------- MODULE Spec2Model ----------------------------
(***************************************************************************)
(* The authentication session of starter_app_rn: the AuthProvider of       *)
(* AuthContext (src/unnamed/part_001), the identity provider it wraps, and *)
(* the auth modals of SettingsScreen and HistoriesScreen that drive it.    *)
(*                                                                         *)
(* JavaScript runs one callback at a time, so every action below is the    *)
(* code of one callback from where it starts (or resumes after an await)   *)
(* to its next await.  An await on the provider leaves a record in `calls` *)
(* or `fetches`; the provider settles it in a later step.                  *)
(***************************************************************************)
EXTENDS Integers, Sequences, FiniteSets, Bags, TLC

(* ------------------------------ bounds --------------------------------- *)
\* ID tokens the provider issues in one run (a sign-in, a restored session
\* and every forced refresh issue one).
MaxTokens == 2
\* Promises awaiting the provider at the same time: session operations
\* (sign-in, sign-up, sign-out) and getIdToken calls together.
MaxInFlight == 3
\* Characters in the add-history entry field.
MaxLen == 3
\* The clock reads 0..MaxClock.
MaxClock == 1

(* ------------------------------ values --------------------------------- *)
NoUser == "null"
Uids == {"u1"}
\* useState<string | null>(null): the absent token; tokens are 1..MaxTokens
\* in the order the provider issued them.
NoToken == 0
NoError == "null"
FillAllFields == "auth.fillAllFields"
GenericError == "auth.error"

Screens == {"settings", "histories"}

\* Errors a rejected provider promise carries: {code, message}; "" stands
\* for a missing (falsy) field.
CancelCodes == {"SIGN_IN_CANCELLED", "sign_in_cancelled"}
CancelErrors == {[code |-> c, message |-> "cancelled"] : c \in CancelCodes}
ProviderErrors ==
    { [code |-> "auth/failed", message |-> "provider message"],
      [code |-> "auth/failed", message |-> ""] }
NoIdTokenError == [code |-> "", message |-> "No ID token from Google"]
NoErr == [code |-> "", message |-> ""]

VARIABLES
    user, token, isLoading, isReady,   \* the AuthProvider's four state cells
    mounted,                           \* the AuthProvider is mounted
    timers,                            \* refresh intervals set and not cleared
    currentUser,                       \* auth.currentUser of the provider
    initialised,                       \* the provider sent its first notification
    issued,                            \* tokens issued so far; the latest is cached
    fetches,                           \* bag of getIdToken calls in flight
    calls,                             \* bag of session operations in flight
    scr,                               \* each screen's auth-modal state
    alertOpen,                         \* SettingsScreen's sign-out Alert is up
    add,                               \* HistoriesScreen's add-history modal, its
                                       \* createHistory calls in flight
    ev                                 \* the callback that ran last, what it was given and returned
                                       \* ("ui" for a press or an input that only sets screen state)

vars == <<user, token, isLoading, isReady, mounted, timers, currentUser,
          initialised, issued, fetches, calls, scr, alertOpen, add, ev>>

session == <<user, token, isLoading, isReady>>
provider == <<currentUser, initialised, issued>>

(* ------------------------------ helpers -------------------------------- *)
One(x) == SetToBag({x})
InFlight(b) == BagToSet(b)
Room == BagCardinality(fetches) + BagCardinality(calls) < MaxInFlight

\* React drops the update of a state cell of an unmounted component.
SetState(cell, value) == IF mounted THEN value ELSE cell

\* toAuthUser: null for no user, else the user's fields (here its uid).
toAuthUserAlwaysNull(firebaseUser) == NoUser
toAuthUser(firebaseUser) == firebaseUser

\* clearInterval(refreshInterval), the cleanup of the refresh effect.
clearIntervalSkipped(running) == running
clearInterval(running) == 0

RefreshEffectOnlyStarts(u) == timers + (IF u = NoUser THEN 0 ELSE 1)

\* useEffect(..., [user]) when user changes: the cleanup of the previous run,
\* then the new run, which sets an interval when there is a user.  Every
\* notification with a user builds a new user object, so the effect runs
\* again.
RefreshEffect(u) ==
    clearInterval(timers) + (IF u = NoUser THEN 0 ELSE 1)

RECURSIVE TrimStart(_)
TrimStart(s) ==
    IF s # <<>> /\ Head(s) = " " THEN TrimStart(Tail(s)) ELSE s

RECURSIVE TrimEnd(_)
TrimEnd(s) ==
    IF s # <<>> /\ s[Len(s)] = " " THEN TrimEnd(SubSeq(s, 1, Len(s) - 1)) ELSE s

\* String.prototype.trim
trim(s) == TrimEnd(TrimStart(s))

ScreenInit ==
    [showAuthModal |-> FALSE, authMode |-> "signin", email |-> <<>>,
     password |-> <<>>, authError |-> NoError, isSubmitting |-> FALSE]

\* HistoriesScreen's add-history state: showAddModal, newValue, isSubmitting;
\* `pending` are the createHistory payloads awaiting the data hook.
AddInit ==
    [showAddModal |-> FALSE, newValue |-> <<>>, isSubmitting |-> FALSE,
     pending |-> EmptyBag]

Init ==
    /\ user = NoUser
    /\ token = NoToken
    /\ isLoading = TRUE
    /\ isReady = FALSE
    /\ mounted = TRUE
    /\ timers = 0
    /\ currentUser = NoUser
    /\ initialised = FALSE
    /\ issued = 0
    /\ fetches = EmptyBag
    /\ calls = EmptyBag
    /\ scr = [s \in Screens |-> ScreenInit]
    /\ alertOpen = FALSE
    /\ add = AddInit
    /\ ev = [op |-> "init"]

(* ------------------- onAuthStateChanged callback ----------------------- *)
\* The callback from its start to its first await: setUser, then either the
\* await of firebaseUser.getIdToken() or, with no user, the rest of the body.
\* `tok` is the token the provider holds for the user.
AuthStateChangedReadyIffUser(firebaseUser, tok) ==
    /\ user' = toAuthUser(firebaseUser)
    /\ timers' = RefreshEffect(toAuthUser(firebaseUser))
    /\ IF firebaseUser # NoUser
         THEN /\ fetches' = fetches (+)
                    One([src |-> "notify", tok |-> tok])
              /\ UNCHANGED <<token, isLoading, isReady>>
         ELSE /\ token' = NoToken
              /\ isLoading' = FALSE
              /\ isReady' = FALSE
              /\ UNCHANGED fetches

AuthStateChangedLoadsToken(firebaseUser, tok) ==
    /\ user' = toAuthUser(firebaseUser)
    /\ timers' = RefreshEffect(toAuthUser(firebaseUser))
    /\ IF firebaseUser # NoUser
         THEN /\ fetches' = fetches (+)
                    One([src |-> "notify", tok |-> tok])
              /\ isLoading' = TRUE
              /\ UNCHANGED <<token, isReady>>
         ELSE /\ token' = NoToken
              /\ isLoading' = FALSE
              /\ isReady' = TRUE
              /\ UNCHANGED fetches

AuthStateChanged(firebaseUser, tok) ==
    /\ user' = toAuthUser(firebaseUser)
    /\ timers' = RefreshEffect(toAuthUser(firebaseUser))
    /\ IF firebaseUser # NoUser
         THEN /\ fetches' = fetches (+)
                    One([src |-> "notify", tok |-> tok])
              /\ UNCHANGED <<token, isLoading, isReady>>
         ELSE /\ token' = NoToken
              /\ isLoading' = FALSE
              /\ isReady' = TRUE
              /\ UNCHANGED fetches

\* The provider resolves its initial state (a persisted session or none) and
\* notifies the subscriber for the first time.
ProviderInit(u) ==
    /\ mounted /\ ~initialised
    /\ u # NoUser => issued < MaxTokens /\ Room
    /\ initialised' = TRUE
    /\ currentUser' = u
    /\ issued' = IF u = NoUser THEN issued ELSE issued + 1
    /\ AuthStateChanged(u, issued')
    /\ ev' = [op |-> "onAuthStateChanged", arg |-> u]
    /\ UNCHANGED <<mounted, calls, scr, alertOpen>>
    /\ UNCHANGED add

\* getIdToken() of the callback resolved: setToken(idToken), then the tail.
NotifyTokenOk(f) ==
    /\ f \in InFlight(fetches) /\ f.src = "notify"
    /\ fetches' = fetches (-) One(f)
    /\ token' = SetState(token, f.tok)
    /\ isLoading' = SetState(isLoading, FALSE)
    /\ isReady' = SetState(isReady, TRUE)
    /\ ev' = [op |-> "onAuthStateChanged.token", arg |-> f.tok]
    /\ UNCHANGED <<user, mounted, timers, provider, calls, scr, alertOpen>>
    /\ UNCHANGED add

NotifyTokenFailNoTail(f) ==
    /\ f \in InFlight(fetches) /\ f.src = "notify"
    /\ fetches' = fetches (-) One(f)
    /\ token' = SetState(token, NoToken)
    /\ ev' = [op |-> "onAuthStateChanged.error", arg |-> f.tok]
    /\ UNCHANGED <<user, isLoading, isReady, mounted, timers, provider, calls,
                   scr, alertOpen, add>>

\* getIdToken() of the callback rejected: setToken(null), then the tail.
NotifyTokenFail(f) ==
    /\ f \in InFlight(fetches) /\ f.src = "notify"
    /\ fetches' = fetches (-) One(f)
    /\ token' = SetState(token, NoToken)
    /\ isLoading' = SetState(isLoading, FALSE)
    /\ isReady' = SetState(isReady, TRUE)
    /\ ev' = [op |-> "onAuthStateChanged.error", arg |-> f.tok]
    /\ UNCHANGED <<user, mounted, timers, provider, calls, scr, alertOpen>>
    /\ UNCHANGED add

(* -------------------- periodic refresh (interval) ---------------------- *)

\* The forced fetches may take one token more than the sign-ins, so that two
\* of them can be in flight for one signed-in user.
MaxIssued == MaxTokens + 1

\* currentUser.getIdToken(true): the provider issues a new token for the
\* request; the reply (or the failure) arrives in a later step.
ForcedFetch(src) ==
    /\ issued < MaxIssued /\ Room
    /\ issued' = issued + 1
    /\ fetches' = fetches (+) One([src |-> src, tok |-> issued'])

\* The interval callback to its await.
TimerTick ==
    /\ timers > 0
    /\ IF currentUser # NoUser
         THEN ForcedFetch("timer")
         ELSE UNCHANGED <<issued, fetches>>
    /\ ev' = [op |-> "interval", arg |-> currentUser]
    /\ UNCHANGED <<session, mounted, timers, currentUser, initialised, calls,
                   scr, alertOpen>>
    /\ UNCHANGED add

TimerTokenOkKeepsNewest(f) ==
    /\ f \in InFlight(fetches) /\ f.src = "timer"
    /\ fetches' = fetches (-) One(f)
    /\ token' = SetState(token, IF token > f.tok THEN token ELSE f.tok)
    /\ ev' = [op |-> "interval.token", arg |-> f.tok, prev |-> token]
    /\ UNCHANGED <<user, isLoading, isReady, mounted, timers, provider, calls,
                   scr, alertOpen, add>>

\* getIdToken(true) of the interval callback resolved: setToken(newToken).
TimerTokenOk(f) ==
    /\ f \in InFlight(fetches) /\ f.src = "timer"
    /\ fetches' = fetches (-) One(f)
    /\ token' = SetState(token, f.tok)
    /\ ev' = [op |-> "interval.token", arg |-> f.tok, prev |-> token]
    /\ UNCHANGED <<user, isLoading, isReady, mounted, timers, provider, calls,
                   scr, alertOpen>>
    /\ UNCHANGED add

TimerTokenFailClearsToken(f) ==
    /\ f \in InFlight(fetches) /\ f.src = "timer"
    /\ fetches' = fetches (-) One(f)
    /\ token' = SetState(token, NoToken)
    /\ ev' = [op |-> "interval.error", arg |-> f.tok]
    /\ UNCHANGED <<user, isLoading, isReady, mounted, timers, provider, calls,
                   scr, alertOpen, add>>

\* The catch of the interval callback: console.error only.
TimerTokenFail(f) ==
    /\ f \in InFlight(fetches) /\ f.src = "timer"
    /\ fetches' = fetches (-) One(f)
    /\ ev' = [op |-> "interval.error", arg |-> f.tok]
    /\ UNCHANGED <<session, mounted, timers, provider, calls, scr, alertOpen>>
    /\ UNCHANGED add

(* ---------------------------- refreshToken ----------------------------- *)
\* refreshToken() to its await, or to `return null` with no current user.
refreshToken ==
    /\ mounted
    /\ IF currentUser = NoUser
         THEN /\ ev' = [op |-> "refreshToken", ret |-> NoToken,
                        asked |-> FALSE, threw |-> FALSE]
              /\ UNCHANGED <<issued, fetches>>
         ELSE /\ ForcedFetch("refreshToken")
              /\ ev' = [op |-> "refreshToken.await", arg |-> issued']
    /\ UNCHANGED <<session, mounted, timers, currentUser, initialised, calls,
                   scr, alertOpen>>
    /\ UNCHANGED add

RefreshTokenOk(f) ==
    /\ f \in InFlight(fetches) /\ f.src = "refreshToken"
    /\ fetches' = fetches (-) One(f)
    /\ token' = SetState(token, f.tok)
    /\ ev' = [op |-> "refreshToken", ret |-> f.tok, asked |-> TRUE,
              threw |-> FALSE, prev |-> token]
    /\ UNCHANGED <<user, isLoading, isReady, mounted, timers, provider, calls,
                   scr, alertOpen>>
    /\ UNCHANGED add

\* The catch of refreshToken: console.error, return null.
RefreshCaughtRethrows(f) ==
    [op |-> "refreshToken", ret |-> NoToken, asked |-> TRUE, threw |-> TRUE]
RefreshCaught(f) ==
    [op |-> "refreshToken", ret |-> NoToken, asked |-> TRUE, threw |-> FALSE]

RefreshTokenFail(f) ==
    /\ f \in InFlight(fetches) /\ f.src = "refreshToken"
    /\ fetches' = fetches (-) One(f)
    /\ ev' = RefreshCaught(f)
    /\ UNCHANGED <<session, mounted, timers, provider, calls, scr, alertOpen>>
    /\ UNCHANGED add

(* ------------------ sign-in, sign-up, sign-out: start ------------------ *)
Call(caller, kind, stage, email, password) ==
    [caller |-> caller, kind |-> kind, stage |-> stage, email |-> email,
     password |-> password]

\* Each operation to its first await: setIsLoading(true), then the provider.
StartCall(c) ==
    /\ Room
    /\ isLoading' = SetState(isLoading, TRUE)
    /\ calls' = calls (+) One(c)

signInWithEmail(caller, email, password) ==
    StartCall(Call(caller, "signInWithEmail", "provider", email, password))

signUpWithEmailTrimmed(caller, email, password) ==
    StartCall(Call(caller, "signUpWithEmail", "provider", trim(email),
                   trim(password)))
signUpWithEmail(caller, email, password) ==
    StartCall(Call(caller, "signUpWithEmail", "provider", email, password))

\* getGoogleSignin, hasPlayServices and the interactive GoogleSignin.signIn
\* are the stage "picker"; signInWithCredential is the stage "credential".
signInWithGoogle(caller) ==
    StartCall(Call(caller, "signInWithGoogle", "picker", <<>>, <<>>))

signOut(caller) ==
    StartCall(Call(caller, "signOut", "provider", <<>>, <<>>))

(* ------------------------- the screens' forms -------------------------- *)
\* What can be typed into a field: empty, blank, and text with a space at
\* one end.
EmailValues == {<<>>, <<" ">>, <<" ", "a">>}
PasswordValues == {<<>>, <<" ">>, <<"b", " ">>}

ErrorTextNoFallback(err) == err.message

\* authErr.message || t('auth.error')
ErrorText(err) == IF err.message # "" THEN err.message ELSE GenericError

\* handleAuthSubmit after its await: the rest of the try, or the catch, and
\* the finally.  The setters are those of the screen's own state.
AuthSubmitDone(form, err) ==
    IF err = NoErr
      THEN [form EXCEPT !.showAuthModal = FALSE, !.email = <<>>,
                        !.password = <<>>, !.isSubmitting = FALSE]
      ELSE [form EXCEPT !.authError = ErrorText(err), !.isSubmitting = FALSE]

\* handleGoogleSignIn after its await.
GoogleSignInDoneShowsCancel(form, err) ==
    IF err = NoErr
      THEN [form EXCEPT !.showAuthModal = FALSE, !.isSubmitting = FALSE]
      ELSE [form EXCEPT !.authError = ErrorText(err), !.isSubmitting = FALSE]

GoogleSignInDone(form, err) ==
    IF err = NoErr
      THEN [form EXCEPT !.showAuthModal = FALSE, !.isSubmitting = FALSE]
      ELSE IF err.code \notin CancelCodes
        THEN [form EXCEPT !.authError = ErrorText(err), !.isSubmitting = FALSE]
        ELSE [form EXCEPT !.isSubmitting = FALSE]

\* The caller's code after the awaited operation settled.  handleSignOut's
\* onPress only logs a failure; a consumer outside the screens is not modelled
\* further.
Continue(c, err) ==
    IF c.caller \notin Screens \/ c.kind = "signOut"
      THEN scr
      ELSE [scr EXCEPT ![c.caller] =
              IF c.kind = "signInWithGoogle"
                THEN GoogleSignInDone(@, err)
                ELSE AuthSubmitDone(@, err)]

(* ------------------ sign-in, sign-up, sign-out: settle ----------------- *)
AwaitsSignIn(c) ==
    \/ c.kind \in {"signInWithEmail", "signUpWithEmail"} /\ c.stage = "provider"
    \/ c.kind = "signInWithGoogle" /\ c.stage = "credential"

\* The provider signs the user in.  It notifies the subscriber when the
\* signed-in user changed, and may when the same user signs in again.
ProviderSignIn(c, u, notify) ==
    /\ c \in InFlight(calls) /\ AwaitsSignIn(c)
    /\ issued < MaxTokens
    /\ currentUser # u => notify
    /\ currentUser' = u
    /\ issued' = issued + 1
    /\ calls' = (calls (-) One(c)) (+) One([c EXCEPT !.stage = "resolved"])
    /\ IF notify /\ mounted
         THEN Room /\ AuthStateChanged(u, issued')
         ELSE UNCHANGED <<session, timers, fetches>>
    /\ ev' = [op |-> "provider.signIn", arg |-> c.kind,
              notified |-> notify /\ mounted]
    /\ UNCHANGED <<mounted, initialised, scr, alertOpen>>
    /\ UNCHANGED add

\* The provider signs the user out.
ProviderSignOut(c, notify) ==
    /\ c \in InFlight(calls) /\ c.kind = "signOut" /\ c.stage = "provider"
    /\ currentUser # NoUser => notify
    /\ currentUser' = NoUser
    /\ calls' = (calls (-) One(c)) (+) One([c EXCEPT !.stage = "resolved"])
    /\ IF notify /\ mounted
         THEN AuthStateChanged(NoUser, NoToken)
         ELSE UNCHANGED <<session, timers, fetches>>
    /\ ev' = [op |-> "provider.signOut", arg |-> c.kind,
              notified |-> notify /\ mounted]
    /\ UNCHANGED <<mounted, initialised, issued, scr, alertOpen>>
    /\ UNCHANGED add

\* GoogleSignin.signIn returned an ID token: on to signInWithCredential.
GooglePicked(c) ==
    /\ c \in InFlight(calls) /\ c.kind = "signInWithGoogle" /\ c.stage = "picker"
    /\ calls' = (calls (-) One(c)) (+) One([c EXCEPT !.stage = "credential"])
    /\ ev' = [op |-> "signInWithGoogle.credential", arg |-> c.caller]
    /\ UNCHANGED <<session, mounted, timers, provider, fetches, scr, alertOpen>>
    /\ UNCHANGED add

ResolveWritesSession(c) ==
    /\ c \in InFlight(calls) /\ c.stage = "resolved"
    /\ calls' = calls (-) One(c)
    /\ isLoading' = SetState(isLoading, FALSE)
    /\ user' = SetState(user, currentUser)
    /\ token' = SetState(token, issued)
    /\ scr' = Continue(c, NoErr)
    /\ ev' = [op |-> c.kind, caller |-> c.caller, err |-> NoErr]
    /\ UNCHANGED <<isReady, mounted, timers, provider, fetches, alertOpen, add>>

\* The awaited promise resolved: the finally, then the caller goes on.
Resolve(c) ==
    /\ c \in InFlight(calls) /\ c.stage = "resolved"
    /\ calls' = calls (-) One(c)
    /\ isLoading' = SetState(isLoading, FALSE)
    /\ scr' = Continue(c, NoErr)
    /\ ev' = [op |-> c.kind, caller |-> c.caller, err |-> NoErr]
    /\ UNCHANGED <<user, token, isReady, mounted, timers, provider, fetches,
                   alertOpen>>
    /\ UNCHANGED add

ThrowsNoIdTokenAfterCredential(c) ==
    CASE c.stage = "resolved" -> {NoIdTokenError}
      [] c.stage = "picker" -> CancelErrors \cup ProviderErrors
      [] OTHER -> ProviderErrors

\* What each await can throw.  GoogleSignin.signIn without an ID token makes
\* the operation throw Error('No ID token from Google').
Throws(c) ==
    CASE c.stage = "resolved" -> {}
      [] c.stage = "picker" -> CancelErrors \cup ProviderErrors \cup {NoIdTokenError}
      [] OTHER -> ProviderErrors

\* The operation has no catch: the finally runs and the error reaches the
\* caller.
RejectSwallowCancel(c, err) == IF err.code \in CancelCodes THEN NoErr ELSE err
Rethrown(c, err) == err

Reject(c, err) ==
    /\ c \in InFlight(calls) /\ err \in Throws(c)
    /\ calls' = calls (-) One(c)
    /\ isLoading' = SetState(isLoading, FALSE)
    /\ scr' = Continue(c, Rethrown(c, err))
    /\ ev' = [op |-> c.kind, caller |-> c.caller, err |-> Rethrown(c, err),
              thrown |-> err]
    /\ UNCHANGED <<user, token, isReady, mounted, timers, provider, fetches,
                   alertOpen>>
    /\ UNCHANGED add

(* --------------------- a consumer of the context ----------------------- *)
AppContentNoSplash == "AppNavigator"

\* AppContent: the splash screen while !isReady, the navigator afterwards.
AppContent == IF ~isReady THEN "SplashScreen" ELSE "AppNavigator"

\* Any component under AppContent may call the operations of useAuth(); the
\* navigator and its screens exist once isReady.
Shown == mounted /\ AppContent = "AppNavigator"

ConsumerSignIn ==
    /\ Shown
    /\ \E e \in EmailValues, p \in PasswordValues :
          /\ trim(e) # <<>> /\ trim(p) # <<>>
          /\ \/ signInWithEmail("consumer", e, p)
             \/ signUpWithEmail("consumer", e, p)
    /\ ev' = [op |-> "call", caller |-> "consumer"]
    /\ UNCHANGED <<user, token, isReady, mounted, timers, provider, fetches,
                   scr, alertOpen>>
    /\ UNCHANGED add

ConsumerGoogle ==
    /\ Shown
    /\ signInWithGoogle("consumer")
    /\ ev' = [op |-> "call", caller |-> "consumer"]
    /\ UNCHANGED <<user, token, isReady, mounted, timers, provider, fetches,
                   scr, alertOpen>>
    /\ UNCHANGED add

ConsumerSignOut ==
    /\ Shown
    /\ signOut("consumer")
    /\ ev' = [op |-> "call", caller |-> "consumer"]
    /\ UNCHANGED <<user, token, isReady, mounted, timers, provider, fetches,
                   scr, alertOpen>>
    /\ UNCHANGED add

(* ----------------------------- the screens --------------------------- *)
\* The screen's auth modal is on screen.  HistoriesScreen renders it only in
\* its signed-out branch; SettingsScreen renders it in every branch.
ModalShown(s) ==
    /\ Shown
    /\ scr[s].showAuthModal
    /\ s = "histories" => user = NoUser

\* The user works in one screen's modal at a time: the other screen's form
\* is as it was constructed and has nothing in flight.
OneModalAtATime(s) ==
    \A t \in Screens \ {s} :
        /\ scr[t] = ScreenInit
        /\ \A c \in InFlight(calls) : c.caller # t

\* The press that opens the modal: the row of SettingsScreen's last branch
\* (not loading, no user), the button of HistoriesScreen's signed-out branch.
OpenAuthModal(s) ==
    /\ Shown
    /\ OneModalAtATime(s)
    /\ user = NoUser
    /\ s = "settings" => ~isLoading
    /\ scr' = [scr EXCEPT ![s].authMode = "signin", ![s].showAuthModal = TRUE]
    /\ ev' = [op |-> "ui", caller |-> s]
    /\ UNCHANGED <<session, mounted, timers, provider, fetches, calls, alertOpen>>
    /\ UNCHANGED add

\* Cancel in the modal's header, or onRequestClose.
CloseAuthModal(s) ==
    /\ ModalShown(s)
    /\ scr' = [scr EXCEPT ![s].showAuthModal = FALSE]
    /\ ev' = [op |-> "ui", caller |-> s]
    /\ UNCHANGED <<session, mounted, timers, provider, fetches, calls, alertOpen>>
    /\ UNCHANGED add

SwitchAuthMode(s) ==
    /\ ModalShown(s)
    /\ scr' = [scr EXCEPT ![s].authMode =
                 IF @ = "signin" THEN "signup" ELSE "signin"]
    /\ ev' = [op |-> "ui", caller |-> s]
    /\ UNCHANGED <<session, mounted, timers, provider, fetches, calls, alertOpen>>
    /\ UNCHANGED add

setEmail(s, text) ==
    /\ ModalShown(s)
    /\ scr' = [scr EXCEPT ![s].email = text]
    /\ ev' = [op |-> "ui", caller |-> s]
    /\ UNCHANGED <<session, mounted, timers, provider, fetches, calls, alertOpen>>
    /\ UNCHANGED add

setPassword(s, text) ==
    /\ ModalShown(s)
    /\ scr' = [scr EXCEPT ![s].password = text]
    /\ ev' = [op |-> "ui", caller |-> s]
    /\ UNCHANGED <<session, mounted, timers, provider, fetches, calls, alertOpen>>
    /\ UNCHANGED add

\* !email.trim() || !password.trim()
BlankNoTrim(form) == form.email = <<>> \/ form.password = <<>>
Blank(form) == trim(form.email) = <<>> \/ trim(form.password) = <<>>

SubmitEnabledWhileSubmitting(s) == ModalShown(s)

\* The submit button and the Google button are disabled while isSubmitting.
SubmitEnabled(s) == ModalShown(s) /\ ~scr[s].isSubmitting

\* handleAuthSubmit to its await, or to the return of the validation.
handleAuthSubmit(s) ==
    /\ SubmitEnabled(s)
    /\ IF Blank(scr[s])
         THEN /\ scr' = [scr EXCEPT ![s].authError = FillAllFields]
              /\ UNCHANGED <<isLoading, calls>>
         ELSE /\ scr' = [scr EXCEPT ![s].isSubmitting = TRUE,
                                    ![s].authError = NoError]
              /\ IF scr[s].authMode = "signin"
                   THEN signInWithEmail(s, scr[s].email, scr[s].password)
                   ELSE signUpWithEmail(s, scr[s].email, scr[s].password)
    /\ ev' = [op |-> "handleAuthSubmit", caller |-> s]
    /\ UNCHANGED <<user, token, isReady, mounted, timers, provider, fetches,
                   alertOpen>>
    /\ UNCHANGED add

\* handleGoogleSignIn to its await.
handleGoogleSignIn(s) ==
    /\ SubmitEnabled(s)
    /\ scr' = [scr EXCEPT ![s].isSubmitting = TRUE, ![s].authError = NoError]
    /\ signInWithGoogle(s)
    /\ ev' = [op |-> "handleGoogleSignIn", caller |-> s]
    /\ UNCHANGED <<user, token, isReady, mounted, timers, provider, fetches,
                   alertOpen>>
    /\ UNCHANGED add

\* handleSignOut: the press on "Sign out" in SettingsScreen's signed-in row
\* puts up the Alert.
handleSignOut ==
    /\ Shown /\ ~isLoading /\ user # NoUser
    /\ ~alertOpen
    /\ alertOpen' = TRUE
    /\ ev' = [op |-> "ui", caller |-> "settings"]
    /\ UNCHANGED <<session, mounted, timers, provider, fetches, calls, scr>>
    /\ UNCHANGED add

AlertCancel ==
    /\ mounted /\ alertOpen
    /\ alertOpen' = FALSE
    /\ ev' = [op |-> "ui", caller |-> "settings"]
    /\ UNCHANGED <<session, mounted, timers, provider, fetches, calls, scr>>
    /\ UNCHANGED add

\* The Alert's destructive button: onPress calls signOut().
AlertSignOut ==
    /\ mounted /\ alertOpen
    /\ alertOpen' = FALSE
    /\ signOut("settings")
    /\ ev' = [op |-> "alert.signOut", caller |-> "settings"]
    /\ UNCHANGED <<user, token, isReady, mounted, timers, provider, fetches, scr>>
    /\ UNCHANGED add

(* -------------------- HistoriesScreen: add history ------------------- *)
\* if (!user) return the sign-in prompt; otherwise the stats, the list and
\* the add-history modal.
HistoriesViewByToken ==
    IF token = NoToken THEN "signInPrompt" ELSE "histories"
HistoriesView ==
    IF user = NoUser THEN "signInPrompt" ELSE "histories"

\* What the entry field can hold.
Digits == {"0", "5"}
Chars == Digits \cup {".", "-", " "}
Times == 0..MaxClock

DigitValue(c) == IF c = "5" THEN 5 ELSE 0

RECURSIVE DigitPrefix(_)
DigitPrefix(s) ==
    IF s # <<>> /\ Head(s) \in Digits
      THEN <<Head(s)>> \o DigitPrefix(Tail(s))
      ELSE <<>>

RECURSIVE DigitsValue(_)
DigitsValue(d) ==
    IF d = <<>> THEN 0
    ELSE 10 * DigitsValue(SubSeq(d, 1, Len(d) - 1)) + DigitValue(d[Len(d)])

RECURSIVE Pow10(_)
Pow10(n) == IF n = 0 THEN 1 ELSE 10 * Pow10(n - 1)

\* Numbers are counted in units of 10^-MaxLen, so every decimal the field can
\* hold is an integer of units.
NaN == [nan |-> TRUE, v |-> 0]
Number(units) == [nan |-> FALSE, v |-> units]

\* parseFloat: leading whitespace is skipped, then the longest prefix that is
\* a decimal literal (sign, digits, a point and digits) is the value and the
\* rest of the string is ignored; NaN when that prefix has no digit.
parseFloat(text) ==
    LET s == TrimStart(text)
        neg == s # <<>> /\ Head(s) = "-"
        body == IF neg THEN Tail(s) ELSE s
        int == DigitPrefix(body)
        rest == SubSeq(body, Len(int) + 1, Len(body))
        frac == IF rest # <<>> /\ Head(rest) = "."
                  THEN DigitPrefix(Tail(rest)) ELSE <<>>
        mag == DigitsValue(int) * Pow10(MaxLen)
               + DigitsValue(frac) * Pow10(MaxLen - Len(frac))
    IN  IF int = <<>> /\ frac = <<>>
          THEN NaN
          ELSE Number(IF neg THEN 0 - mag ELSE mag)

AddModalShownInEveryBranch == Shown /\ add.showAddModal

\* The add-history modal is part of the signed-in branch only.
AddModalShown == Shown /\ HistoriesView = "histories" /\ add.showAddModal

\* The "+ Add" button of the signed-in branch.
OpenAddModal ==
    /\ Shown /\ HistoriesView = "histories"
    /\ add' = [add EXCEPT !.showAddModal = TRUE]
    /\ ev' = [op |-> "ui", caller |-> "histories"]
    /\ UNCHANGED <<session, mounted, timers, provider, fetches, calls, scr,
                   alertOpen>>

\* Cancel in the add modal's header, or onRequestClose.
CloseAddModal ==
    /\ AddModalShown
    /\ add' = [add EXCEPT !.showAddModal = FALSE]
    /\ ev' = [op |-> "ui", caller |-> "histories"]
    /\ UNCHANGED <<session, mounted, timers, provider, fetches, calls, scr,
                   alertOpen>>

\* onChangeText={setNewValue}: a key of the pad appends a character, the
\* delete key removes the last one.
setNewValue(text) ==
    /\ AddModalShown
    /\ Len(text) <= MaxLen
    /\ add' = [add EXCEPT !.newValue = text]
    /\ ev' = [op |-> "ui", caller |-> "histories"]
    /\ UNCHANGED <<session, mounted, timers, provider, fetches, calls, scr,
                   alertOpen>>

\* handleAddHistory to its await, or to the return after the Alert; `now` is
\* what new Date() reads.
handleAddHistory(now) ==
    /\ AddModalShown /\ ~add.isSubmitting
    /\ LET value == parseFloat(add.newValue)
       IN  IF value.nan \/ value.v <= 0
             THEN /\ ev' = [op |-> "handleAddHistory", now |-> now,
                            alert |-> "Invalid Value"]
                  /\ UNCHANGED add
             ELSE /\ add' = [add EXCEPT
                               !.isSubmitting = TRUE,
                               !.pending = @ (+) One([datetime |-> now,
                                                      value |-> value.v])]
                  /\ ev' = [op |-> "handleAddHistory", now |-> now,
                            alert |-> "none"]
    /\ UNCHANGED <<session, mounted, timers, provider, fetches, calls, scr,
                   alertOpen>>

\* createHistory resolved: the rest of the try, and the finally.
CreateHistoryOk(payload) ==
    /\ payload \in InFlight(add.pending)
    /\ add' = [add EXCEPT !.pending = @ (-) One(payload), !.newValue = <<>>,
                          !.showAddModal = FALSE, !.isSubmitting = FALSE]
    /\ ev' = [op |-> "createHistory", alert |-> "none"]
    /\ UNCHANGED <<session, mounted, timers, provider, fetches, calls, scr,
                   alertOpen>>

\* createHistory rejected: the catch, and the finally.
CreateHistoryFail(payload) ==
    /\ payload \in InFlight(add.pending)
    /\ add' = [add EXCEPT !.pending = @ (-) One(payload),
                          !.isSubmitting = FALSE]
    /\ ev' = [op |-> "createHistory", alert |-> "Error"]
    /\ UNCHANGED <<session, mounted, timers, provider, fetches, calls, scr,
                   alertOpen>>

(* ------------------------------ teardown ------------------------------- *)
\* The AuthProvider unmounts: both effects clean up (unsubscribe,
\* clearInterval).
Unmount ==
    /\ mounted
    /\ mounted' = FALSE
    /\ timers' = clearInterval(timers)
    /\ ev' = [op |-> "unmount"]
    /\ UNCHANGED <<session, provider, fetches, calls, scr, alertOpen>>
    /\ UNCHANGED add

\* The token fetch of a notification settles.
SettleNotification ==
    \/ \E f \in InFlight(fetches) : NotifyTokenOk(f)
    \/ \E f \in InFlight(fetches) : NotifyTokenFail(f)

\* A forced token fetch, of the interval or of refreshToken, settles.
SettleRefresh ==
    \/ \E f \in InFlight(fetches) : TimerTokenOk(f)
    \/ \E f \in InFlight(fetches) : TimerTokenFail(f)
    \/ \E f \in InFlight(fetches) : RefreshTokenOk(f)
    \/ \E f \in InFlight(fetches) : RefreshTokenFail(f)

\* The provider acts on a session operation in flight, or the operation
\* resumes after its await.
SettleCall ==
    \/ \E c \in InFlight(calls), u \in Uids, n \in BOOLEAN : ProviderSignIn(c, u, n)
    \/ \E c \in InFlight(calls), n \in BOOLEAN : ProviderSignOut(c, n)
    \/ \E c \in InFlight(calls) : GooglePicked(c)
    \/ \E c \in InFlight(calls) : Resolve(c)
    \/ \E c \in InFlight(calls) : \E err \in Throws(c) : Reject(c, err)

Next ==
    \/ \E u \in Uids \cup {NoUser} : ProviderInit(u)
    \/ TimerTick
    \/ refreshToken
    \/ ConsumerSignIn
    \/ ConsumerGoogle
    \/ ConsumerSignOut
    \/ Unmount
    \/ SettleNotification
    \/ SettleRefresh
    \/ SettleCall

Spec == Init /\ [][Next]_vars

\* The same steps, with the promise of a notification's getIdToken() settled
\* in the end: the provider resolves or rejects it, it does not stay pending.
SpecLive == Init /\ [][Next]_vars /\ WF_vars(SettleNotification)

\* The session driven by the two screens only.
NextScreens ==
    \/ \E u \in Uids \cup {NoUser} : ProviderInit(u)
    \/ \E s \in Screens : OpenAuthModal(s)
    \/ \E s \in Screens : CloseAuthModal(s)
    \/ \E s \in Screens : SwitchAuthMode(s)
    \/ \E s \in Screens, text \in EmailValues : setEmail(s, text)
    \/ \E s \in Screens, text \in PasswordValues : setPassword(s, text)
    \/ \E s \in Screens : handleAuthSubmit(s)
    \/ \E s \in Screens : handleGoogleSignIn(s)
    \/ handleSignOut
    \/ AlertCancel
    \/ AlertSignOut
    \/ SettleNotification
    \/ SettleCall

SpecScreens == Init /\ [][NextScreens]_vars

\* HistoriesScreen's add-history modal, with a session that a restored
\* sign-in made present.
NextHistories ==
    \/ \E u \in Uids \cup {NoUser} : ProviderInit(u)
    \/ SettleNotification
    \/ OpenAddModal
    \/ CloseAddModal
    \/ \E c \in Chars : setNewValue(Append(add.newValue, c))
    \/ add.newValue # <<>> /\
         setNewValue(SubSeq(add.newValue, 1, Len(add.newValue) - 1))
    \/ \E now \in Times : handleAddHistory(now)
    \/ \E payload \in InFlight(add.pending) : CreateHistoryOk(payload)
    \/ \E payload \in InFlight(add.pending) : CreateHistoryFail(payload)

SpecHistories == Init /\ [][NextHistories]_vars

\* HistoriesScreen's add-history modal while sign-ins and sign-outs go on
\* around it; the entry is "5" or empty and the clock reads 0.
NextHistoriesSession ==
    \/ \E u \in Uids \cup {NoUser} : ProviderInit(u)
    \/ SettleNotification
    \/ ConsumerSignIn
    \/ ConsumerSignOut
    \/ \E c \in InFlight(calls), u \in Uids, n \in BOOLEAN : ProviderSignIn(c, u, n)
    \/ \E c \in InFlight(calls), n \in BOOLEAN : ProviderSignOut(c, n)
    \/ \E c \in InFlight(calls) : Resolve(c)
    \/ \E c \in InFlight(calls) : \E err \in Throws(c) : Reject(c, err)
    \/ OpenAddModal
    \/ CloseAddModal
    \/ setNewValue(<<"5">>)
    \/ handleAddHistory(0)
    \/ \E payload \in InFlight(add.pending) : CreateHistoryOk(payload)
    \/ \E payload \in InFlight(add.pending) : CreateHistoryFail(payload)

SpecHistoriesSession == Init /\ [][NextHistoriesSession]_vars

(* ------------------------------- claims -------------------------------- *)

\* C1: a submit of the sign-in/sign-up form of either screen with an email or
\* a password that is empty or only whitespace starts no provider operation,
\* sets authError to the validation message and leaves isSubmitting false.
C1_BlankSubmitStopsAtValidation ==
    [][\A s \in Screens :
         LET OnlySpaces(text) == \A i \in 1..Len(text) : text[i] = " "
         IN  ( /\ ev'.op = "handleAuthSubmit" /\ ev'.caller = s
               /\ OnlySpaces(scr[s].email) \/ OnlySpaces(scr[s].password) )
             => /\ calls' = calls
                /\ isLoading' = isLoading
                /\ scr'[s].authError = FillAllFields
                /\ ~scr[s].isSubmitting /\ ~scr'[s].isSubmitting]_vars

\* C1 witness: HistoriesScreen's form was submitted with a whitespace-only
\* email and a typed password, and shows the validation message.
C1_Witness ==
    /\ ev.op = "handleAuthSubmit" /\ ev.caller = "histories"
    /\ scr["histories"].email = <<" ">>
    /\ scr["histories"].password = <<"b", " ">>
    /\ scr["histories"].authError = FillAllFields
    /\ ~scr["histories"].isSubmitting
    /\ calls = EmptyBag

\* C2 as stated: when the callback of the notification that follows a
\* successful signInWithEmail finishes, user and token are both present.
\* The step taken is the end of that callback: the signInWithEmail call is
\* the only operation in flight and has succeeded at the provider, its token
\* is the first one issued, and its fetch is the only one in flight.
C2_IdentityAndTokenPresentAfterSignIn ==
    [][ ( /\ ev'.op \in {"onAuthStateChanged.token", "onAuthStateChanged.error"}
          /\ mounted /\ issued = 1
          /\ BagCardinality(calls) = 1 /\ BagCardinality(fetches) = 1
          /\ \E c \in InFlight(calls) :
                c.kind = "signInWithEmail" /\ c.stage = "resolved" )
        => (user' # NoUser /\ token' # NoToken) ]_vars

\* C2 amended: the callback of a notification that reports a user (the one
\* that follows a successful signInWithEmail included) makes user present,
\* the provider's current user, when it starts; when its token fetch settles
\* it sets token to the fetched token if the fetch succeeded and to absent if
\* it failed, and leaves user as it is.
C2_SignInNotificationSetsUserThenToken ==
    [][ /\ (ev'.op = "provider.signIn" /\ ev'.notified)
           => (user' \in Uids /\ user' = currentUser')
        /\ (ev'.op = "onAuthStateChanged.token" /\ mounted)
           => (token' = ev'.arg /\ token' # NoToken /\ user' = user)
        /\ (ev'.op = "onAuthStateChanged.error" /\ mounted)
           => (token' = NoToken /\ user' = user) ]_vars

\* C2 witness: the callback of the notification of a first sign-in, made with
\* signInWithEmail, finished with the user present and the fetched token
\* stored, before the call itself resumed.
C2_Witness ==
    /\ ev.op = "onAuthStateChanged.token" /\ issued = 1
    /\ \E c \in InFlight(calls) :
          c.kind = "signInWithEmail" /\ c.stage = "resolved"
    /\ mounted /\ user # NoUser /\ token = ev.arg /\ token # NoToken

\* C3 as stated: with the provider signed out and no operation in flight (a
\* signOut has resolved and no sign-in has begun), user and token are absent.
C3_AbsentAfterSignOut ==
    (mounted /\ isReady /\ currentUser = NoUser /\ calls = EmptyBag)
    => (user = NoUser /\ token = NoToken)

\* C4 as stated: in every state, token present implies user present.
C4_TokenImpliesIdentity ==
    mounted => (token # NoToken => user # NoUser)

\* C5: when the Google sign-in started by handleGoogleSignIn is cancelled,
\* authError is null before and after, the handler leaves the modal as it is,
\* isSubmitting goes back to false and user does not change.
C5_CancelledGoogleSignInIsSilent ==
    [][\A s \in Screens :
         ( /\ ev'.op = "signInWithGoogle" /\ ev'.caller = s
           /\ "thrown" \in DOMAIN ev' /\ ev'.thrown.code \in CancelCodes )
         => /\ scr[s].authError = NoError /\ scr'[s].authError = NoError
            /\ scr'[s].showAuthModal = scr[s].showAuthModal
            /\ scr[s].isSubmitting /\ ~scr'[s].isSubmitting
            /\ user' = user]_vars

\* C5 witness: SettingsScreen's Google sign-in was cancelled with the modal
\* open; no message is shown.
C5_Witness ==
    /\ ev.op = "signInWithGoogle" /\ ev.caller = "settings"
    /\ "thrown" \in DOMAIN ev /\ ev.thrown.code \in CancelCodes
    /\ scr["settings"].showAuthModal
    /\ scr["settings"].authError = NoError
    /\ ~scr["settings"].isSubmitting

\* C6 as stated: signInWithGoogle gives its caller the error for every
\* failure except a cancellation, for which it completes without an error.
C6_CancelIsSilentInSessionManager ==
    (ev.op = "signInWithGoogle" /\ "thrown" \in DOMAIN ev)
    => IF ev.thrown.code \in CancelCodes
         THEN ev.err = NoErr
         ELSE ev.err = ev.thrown

\* C6 amended: signInWithGoogle rejects to its caller with the error thrown
\* for every failure reason, a cancellation included (it is the screens'
\* handleGoogleSignIn that shows no message for a cancellation).
C6_GoogleSignInRejectsEveryFailure ==
    (ev.op = "signInWithGoogle" /\ "thrown" \in DOMAIN ev)
    => (ev.err = ev.thrown /\ ev.err # NoErr)

\* C6 witness: a cancelled signInWithGoogle has rejected to its caller with
\* the cancellation error.
C6_Witness ==
    /\ ev.op = "signInWithGoogle" /\ "thrown" \in DOMAIN ev
    /\ ev.thrown.code \in CancelCodes
    /\ ev.err = ev.thrown

\* C7: an interval is set only while the AuthProvider is mounted and user is
\* present, and the interval callback starts a forced token fetch only then.
C7_NoTimerRefreshWithoutIdentity ==
    [][ /\ timers' > 0 => (mounted' /\ user' # NoUser)
        /\ (ev'.op = "interval" /\ fetches' # fetches)
           => (mounted /\ user # NoUser) ]_vars

\* C7 witness: the sign-out notification made user absent and cleared the
\* interval while a fetch started by the interval was still in flight.
C7_Witness ==
    /\ ev.op = "provider.signOut" /\ ev.notified
    /\ user = NoUser /\ timers = 0
    /\ \E f \in InFlight(fetches) : f.src = "timer"

\* C8: refreshToken never throws; with no current user it returns null and
\* asks the provider nothing; when the forced fetch succeeds it stores the
\* new token and returns it; when the fetch fails it returns null and leaves
\* token as it is; user, isLoading and isReady never change.
C8_RefreshTokenContract ==
    [][ /\ ev'.op = "refreshToken.await" => currentUser # NoUser
        /\ ev'.op = "refreshToken" =>
             /\ ~ev'.threw
             /\ user' = user /\ isLoading' = isLoading /\ isReady' = isReady
             /\ IF ~ev'.asked
                  THEN /\ currentUser = NoUser /\ ev'.ret = NoToken
                       /\ fetches' = fetches /\ issued' = issued
                       /\ token' = token
                  ELSE \E f \in InFlight(fetches) :
                         /\ f.src = "refreshToken"
                         /\ fetches' = fetches (-) One(f)
                         /\ \/ ev'.ret = f.tok /\ (mounted => token' = f.tok)
                            \/ ev'.ret = NoToken /\ token' = token ]_vars

\* C8 witness: a refreshToken call returned the new token, which is stored.
C8_Witness ==
    /\ ev.op = "refreshToken" /\ ev.asked
    /\ ev.ret # NoToken /\ token = ev.ret

\* C9: isReady is false at the start, never goes from true to false, and goes
\* from false to true only in the callback of the provider's first
\* notification: until then no session operation has started, so the provider
\* has sent no other notification.
C9_ReadyOnceOnFirstNotification ==
    [][ /\ ev.op = "init" => ~isReady
        /\ isReady => isReady'
        /\ ~isReady =>
             /\ calls = EmptyBag
             /\ Cardinality({f \in InFlight(fetches) : f.src = "notify"})
                  <= (IF initialised THEN 1 ELSE 0)
             /\ \A f \in InFlight(fetches) :
                  f.src = "notify" => CopiesIn(f, fetches) = 1
        /\ (~isReady /\ isReady')
           => ev'.op \in {"onAuthStateChanged", "onAuthStateChanged.token",
                          "onAuthStateChanged.error"} ]_vars

\* C9 witness: the provider's first notification, with no user, has run and
\* isReady is true.
C9_Witness ==
    /\ ev.op = "onAuthStateChanged" /\ ev.arg = NoUser
    /\ isReady /\ ~isLoading /\ calls = EmptyBag

C11_SubmitCallsProviderOnceWithTypedValues ==
    [][\A s \in Screens :
         /\ ( /\ ev'.op = "handleAuthSubmit" /\ ev'.caller = s
              /\ trim(scr[s].email) # <<>> /\ trim(scr[s].password) # <<>> )
            => calls' = calls (+)
                 One(Call(s, IF scr[s].authMode = "signup"
                               THEN "signUpWithEmail" ELSE "signInWithEmail",
                          "provider", scr[s].email, scr[s].password))
         /\ ( /\ ev'.op \in {"signInWithEmail", "signUpWithEmail"}
              /\ ev'.caller = s /\ ev'.err = NoErr )
            => /\ ~scr'[s].showAuthModal
               /\ scr'[s].email = <<>> /\ scr'[s].password = <<>>
               /\ BagCardinality(calls') = BagCardinality(calls) - 1 ]_vars

\* C11 witness: a sign-up is in flight for HistoriesScreen with the padded
\* email and password of the form.
C11_Witness ==
    /\ ev.op = "handleAuthSubmit" /\ ev.caller = "histories"
    /\ scr["histories"].authMode = "signup"
    /\ calls = One(Call("histories", "signUpWithEmail", "provider",
                        <<" ", "a">>, <<"b", " ">>))

\* C12 as stated: handleAddHistory calls createHistory exactly when the
\* entry (whitespace at its ends aside) is a decimal number greater than
\* zero, with the payload {datetime: the current time, value: that number};
\* for every other entry it makes no call and leaves the modal and the field
\* as they are.
C12_CreateOnlyForPositiveNumber ==
    [][ev'.op = "handleAddHistory" =>
         LET text == trim(add.newValue)
             body == IF text # <<>> /\ Head(text) = "-" THEN Tail(text) ELSE text
             IsNumber ==
                 /\ \A i \in 1..Len(body) : body[i] \in Digits \cup {"."}
                 /\ Cardinality({i \in 1..Len(body) : body[i] = "."}) <= 1
                 /\ \E i \in 1..Len(body) : body[i] \in Digits
             value == parseFloat(add.newValue)
         IN  IF IsNumber /\ value.v > 0
               THEN add'.pending = add.pending (+)
                      One([datetime |-> ev'.now, value |-> value.v])
               ELSE /\ add'.pending = add.pending
                    /\ add'.showAddModal = add.showAddModal
                    /\ add'.newValue = add.newValue ]_vars

\* C13: a signInWithEmail or signUpWithEmail call writes no session field
\* but isLoading: neither the step that starts it nor the step in which it
\* resolves or rejects changes user, token or isReady; user changes only in
\* the provider's notification callback, and token only there or when a
\* token refresh settles.
C13_EmailSignInWritesOnlyIsLoading ==
    [][ LET EmailKinds == {"signInWithEmail", "signUpWithEmail"}
            Starts == /\ ev'.op \in {"call", "handleAuthSubmit"}
                      /\ \E c \in InFlight(calls') :
                            /\ c.kind \in EmailKinds
                            /\ CopiesIn(c, calls') = CopiesIn(c, calls) + 1
            Settles == ev'.op \in EmailKinds
        IN  /\ (Starts \/ Settles)
               => (user' = user /\ token' = token /\ isReady' = isReady)
            /\ Starts => (mounted => isLoading')
            /\ Settles => (mounted => ~isLoading')
            /\ user' # user
               => ev'.op \in {"onAuthStateChanged", "provider.signIn",
                              "provider.signOut"}
            /\ token' # token
               => ev'.op \in {"onAuthStateChanged", "provider.signIn",
                              "provider.signOut", "onAuthStateChanged.token",
                              "onAuthStateChanged.error", "interval.token",
                              "refreshToken"} ]_vars

\* C13 witness: a signInWithEmail call has resolved, user is present through
\* the notification and token is still absent: its fetch is in flight.
C13_Witness ==
    /\ ev.op = "signInWithEmail" /\ ev.err = NoErr
    /\ mounted /\ ~isLoading
    /\ user # NoUser /\ token = NoToken
    /\ \E f \in InFlight(fetches) : f.src = "notify"

\* C14: when the provider rejects the signInWithEmail or signUpWithEmail call
\* of a submit, the call ends without another attempt, the handler receives
\* the provider's error, authError is the error's message or the generic
\* message when it has none, the handler leaves the modal and both fields as
\* they are, and isSubmitting is false again.
C14_RejectedSubmitShowsMessage ==
    [][\A s \in Screens :
         ( /\ ev'.op \in {"signInWithEmail", "signUpWithEmail"}
           /\ ev'.caller = s /\ "thrown" \in DOMAIN ev' )
         => /\ ev'.err = ev'.thrown /\ ev'.thrown \in ProviderErrors
            /\ BagCardinality(calls') = BagCardinality(calls) - 1
            /\ issued' = issued
            /\ scr'[s].authError =
                 (IF ev'.thrown.message = ""
                    THEN GenericError ELSE ev'.thrown.message)
            /\ scr'[s].showAuthModal = scr[s].showAuthModal
            /\ scr'[s].email = scr[s].email
            /\ scr'[s].password = scr[s].password
            /\ scr[s].isSubmitting /\ ~scr'[s].isSubmitting ]_vars

\* C14 witness: SettingsScreen's sign-up was rejected with an error without
\* a message; the open modal shows the generic message over the typed values.
C14_Witness ==
    /\ ev.op = "signUpWithEmail" /\ ev.caller = "settings"
    /\ "thrown" \in DOMAIN ev /\ ev.thrown.message = ""
    /\ scr["settings"].showAuthModal
    /\ scr["settings"].authError = GenericError
    /\ scr["settings"].email = <<" ", "a">>
    /\ ~scr["settings"].isSubmitting

\* C15: when the forced fetch of the interval callback fails, the callback
\* changes nothing: token, user, isLoading and isReady, the screens' state and
\* the interval are as before, and no new fetch is started.
C15_TimerRefreshFailureIsSwallowed ==
    [][ev'.op = "interval.error" =>
          /\ token' = token /\ user' = user
          /\ isLoading' = isLoading /\ isReady' = isReady
          /\ scr' = scr /\ alertOpen' = alertOpen /\ add' = add
          /\ timers' = timers
          /\ issued' = issued
          /\ BagCardinality(fetches') = BagCardinality(fetches) - 1 ]_vars

\* C15 witness: a timer refresh failed with a token stored and the interval
\* still set.
C15_Witness ==
    /\ ev.op = "interval.error"
    /\ mounted /\ timers = 1
    /\ user # NoUser /\ token # NoToken

\* C16: once the provider has sent its first notification and the session is
\* not Ready yet, it becomes Ready while the AuthProvider stays mounted:
\* isReady is true and isLoading is false, whether the notification's token
\* fetch succeeds or fails.
C16_FirstNotificationLeadsToReady ==
    (initialised /\ ~isReady) ~> (~mounted \/ (isReady /\ ~isLoading))

\* C16 witness: the token fetch of the first notification failed and the
\* session is Ready with user present and token absent.
C16_Witness ==
    /\ ev.op = "onAuthStateChanged.error" /\ ev.arg = 1
    /\ mounted /\ isReady /\ ~isLoading
    /\ user # NoUser /\ token = NoToken

\* C17: in every state HistoriesScreen renders the sign-in prompt exactly
\* when user is absent and the history list exactly when user is present,
\* whatever token holds.
C17_PromptExactlyWithoutUser ==
    /\ HistoriesView \in {"signInPrompt", "histories"}
    /\ HistoriesView = "signInPrompt" <=> user = NoUser
    /\ HistoriesView = "histories" <=> user # NoUser

\* C17 witness: the screens are shown, user is absent while a token is still
\* stored, and HistoriesScreen renders the sign-in prompt.
C17_Witness ==
    /\ Shown /\ user = NoUser /\ token # NoToken
    /\ HistoriesView = "signInPrompt"

\* C19: there is never more than one refresh interval; there is one exactly
\* when the AuthProvider is mounted and user is present; and every
\* notification with a user leaves exactly one, the previous one cleared.
C19_OneTimerExactlyWithUser ==
    /\ [](/\ timers \in {0, 1}
          /\ timers = 1 <=> (mounted /\ user # NoUser))
    /\ [][( \/ ev'.op = "onAuthStateChanged" /\ ev'.arg # NoUser
            \/ ev'.op = "provider.signIn" /\ ev'.notified )
          => (user' # NoUser /\ timers' = 1)]_vars

\* C19 witness: a sign-in notified a user while the interval of the user
\* already present was running; one interval is set.
C19_Witness ==
    /\ ev.op = "provider.signIn" /\ ev.notified
    /\ mounted /\ user # NoUser /\ timers = 1
    /\ token # NoToken /\ issued = MaxTokens

\* C18: token refreshes do not exclude one another: a forced fetch is started
\* whatever other fetches are in flight, and when one succeeds its token is
\* stored whatever token holds and whatever is still in flight, so the last
\* to complete wins.
C18_LastCompletedRefreshWins ==
    [][ /\ ( /\ ev'.op \in {"interval", "refreshToken.await"}
             /\ currentUser # NoUser /\ issued < MaxIssued /\ Room )
           => BagCardinality(fetches') = BagCardinality(fetches) + 1
        /\ (ev'.op = "interval.token" /\ mounted) => token' = ev'.arg
        /\ (ev'.op = "refreshToken" /\ ev'.ret # NoToken /\ mounted)
           => token' = ev'.ret ]_vars

\* C18 witness: the interval's fetch completed after a refresh that was
\* started later, and its earlier token replaced the later one.
C18_Witness ==
    /\ ev.op = "interval.token"
    /\ ev.prev > ev.arg /\ token = ev.arg
    /\ mounted /\ user # NoUser

\* C20: AppContent renders the splash screen exactly while isReady is false;
\* isReady becomes true only in the onAuthStateChanged callback, with no user
\* or once the callback's token fetch has settled; when the navigator is
\* first shown with user present, token is the fetched token, or absent when
\* the fetch failed.
C20_SplashUntilFirstTokenFetchSettles ==
    /\ [](AppContent = "SplashScreen" <=> ~isReady)
    /\ [][(~isReady /\ isReady') =>
            \/ /\ ev'.op = "onAuthStateChanged" /\ ev'.arg = NoUser
               /\ user' = NoUser /\ token' = NoToken
            \/ /\ ev'.op = "onAuthStateChanged.token"
               /\ user' # NoUser
               /\ token' = ev'.arg /\ token' # NoToken
               /\ \A f \in InFlight(fetches') : f.src # "notify"
            \/ /\ ev'.op = "onAuthStateChanged.error"
               /\ user' # NoUser
               /\ token' = NoToken
               /\ \A f \in InFlight(fetches') : f.src # "notify" ]_vars

\* C20 witness: the token fetch of the first notification resolved; the
\* navigator is shown with user and the fetched token present.
C20_Witness ==
    /\ ev.op = "onAuthStateChanged.token" /\ ev.arg = 1
    /\ mounted /\ AppContent = "AppNavigator"
    /\ user # NoUser /\ token = 1

\* C21: each screen has at most one sign-in operation (signInWithEmail,
\* signUpWithEmail or signInWithGoogle) in flight, and the screen's
\* isSubmitting is true exactly while it has one: from the start of the call
\* until it settles, with the submit and the Google button disabled, and
\* false again after it resolved or rejected.
C21_OneAuthOperationPerModal ==
    \A s \in Screens :
        LET Mine == {c \in InFlight(calls) :
                        c.caller = s /\ c.kind # "signOut"}
            n == BagCardinality([c \in Mine |-> CopiesIn(c, calls)])
        IN  /\ n <= 1
            /\ scr[s].isSubmitting <=> n = 1
            /\ scr[s].isSubmitting => ~SubmitEnabled(s)

\* C21 witness: SettingsScreen's modal is open with the Google picker up: the
\* call is in flight, isSubmitting is true and the buttons are disabled.
C21_Witness ==
    /\ ModalShown("settings") /\ scr["settings"].isSubmitting
    /\ ~SubmitEnabled("settings")
    /\ \E c \in InFlight(calls) :
          c.caller = "settings" /\ c.kind = "signInWithGoogle"
          /\ c.stage = "picker"

\* C22: while the AuthProvider is mounted, isLoading is true in every state
\* where a signInWithGoogle, signInWithEmail, signUpWithEmail or signOut call
\* is in flight, and false when none is and the session is Ready.
C22_LoadingWhileCallInFlight ==
    (mounted /\ isReady) => (isLoading <=> calls # EmptyBag)

\* C23: a createHistory call is started only while user is present and the
\* navigator is shown: in every step that adds a call to those in flight,
\* user is present before and after the step, whatever sign-ins, sign-outs
\* and modal presses came before.
C23_CreateHistoryOnlyWithUser ==
    [][BagCardinality(add'.pending) > BagCardinality(add.pending)
         => /\ user # NoUser /\ user' # NoUser
            /\ mounted /\ isReady
            /\ add.showAddModal
            /\ ev'.op = "handleAddHistory" ]_vars

\* C23 witness: handleAddHistory started a createHistory with user present
\* while a signOut call is at the provider.
C23_Witness ==
    /\ ev.op = "handleAddHistory" /\ ev.alert = "none"
    /\ add.pending # EmptyBag
    /\ user # NoUser
    /\ \E c \in InFlight(calls) : c.kind = "signOut" /\ c.stage = "provider"

\* C24: when GoogleSignin.signIn() returns without an ID token,
\* signInWithGoogle rejects with Error('No ID token from Google') from the
\* picker stage: the call never reached signInWithCredential, the provider's
\* state, user and token are unchanged, and isLoading is false afterwards.
C24_NoIdTokenRejectsBeforeCredential ==
    [][ ( /\ ev'.op = "signInWithGoogle" /\ "thrown" \in DOMAIN ev'
          /\ ev'.thrown = NoIdTokenError )
        => /\ ev'.err = NoIdTokenError
           /\ ev'.err.message = "No ID token from Google"
           /\ \E c \in InFlight(calls) :
                 /\ c.kind = "signInWithGoogle" /\ c.caller = ev'.caller
                 /\ c.stage = "picker"
                 /\ calls' = calls (-) One(c)
           /\ UNCHANGED <<currentUser, issued, fetches>>
           /\ user' = user /\ token' = token
           /\ mounted => ~isLoading' ]_vars

\* C24 witness: a signInWithGoogle of a signed-out session was rejected for
\* the missing ID token: nobody is signed in, no token was issued or stored
\* and isLoading is false.
C24_Witness ==
    /\ ev.op = "signInWithGoogle" /\ "thrown" \in DOMAIN ev
    /\ ev.thrown = NoIdTokenError /\ ev.err = NoIdTokenError
    /\ mounted /\ ~isLoading
    /\ currentUser = NoUser /\ issued = 0
    /\ user = NoUser /\ token = NoToken

=============================================================================
